---- MODULE Spec2Model ----
(***************************************************************************)
(* Model of the transaction state machine of src/src/main.rs: the State    *)
(* (clients and transactions maps) and handle_transaction, which applies   *)
(* one InputRow (deposit, withdrawal, dispute, resolve, chargeback).       *)
(* Decimal amounts are modelled as exact integers (units of the smallest   *)
(* decimal fraction); the sign test is_sign_negative is "< 0".             *)
(***************************************************************************)
EXTENDS Integers, FiniteSets, Sequences, TLC

\* ---- bounds of the model ----
MaxAmount == 1
MaxEvents == 4

\* The ids are only ever used as map keys, so two values of each type show
\* every interaction between equal and distinct keys.
ClientId == {1, 2}
TransactionId == {1, 2}
\* Decimal amounts of deposit and withdrawal rows; negative ones parse too.
Amounts == (0 - 1)..MaxAmount
\* A dispute, resolve or chargeback row usually has no amount field, which
\* deserializes to 0; MaxAmount stands for the rows that carry one.
DisputeAmounts == {0, MaxAmount}
TransactionKind == {"deposit", "withdrawal", "dispute", "resolve", "chargeback"}
InputRow == [kind : TransactionKind, client_id : ClientId,
             txn_id : TransactionId, amount : Amounts]

\* #[derive(Default)] struct Client / struct Transaction
DefaultClient == [available |-> 0, held |-> 0, locked |-> FALSE]
DefaultTransaction == [amount |-> 0, disputed |-> FALSE]
\* State::default(): two empty maps
DefaultState == [clients |-> <<>>, transactions |-> <<>>]

VARIABLES
    state,      \* the State: clients and transactions maps
    input,      \* the InputRow handled last (NoRow before the first)
    result,     \* what the last handle_transaction call returned
    applied,    \* history: the last row passed the guards of its branch
    owner,      \* history: txn id -> client of the deposit that created the record
    net,        \* history: client -> sum of the deposit amounts applied to it
                \*          minus the sum of the withdrawal amounts applied to it
    added,      \* history: txn id -> amount its last applied dispute added to held
    charged,    \* history: txn ids of the records an applied chargeback referenced
    nEvents     \* number of rows handled so far

vars == <<state, input, result, applied, owner, net, added, charged, nEvents>>

\* BTreeMap::entry(k).or_default() on the map m
OrDefault(m, k, d) == IF k \in DOMAIN m THEN m ELSE (k :> d) @@ m

\* variant: a sign test that also rejects zero
IsSignNegativeOrZero(d) == d <= 0

\* Decimal::is_sign_negative
IsSignNegative(d) == d < 0

\* line 105: the client named by the row, created if absent
WithClient(s, in) ==
    [s EXCEPT !.clients = OrDefault(s.clients, in.client_id, DefaultClient)]

\* line 108 and Entry::Occupied: the row's txn id has a record
Occupied(s, in) == in.txn_id \in DOMAIN s.transactions

\* variant: the deposit branch without the test of client.locked
HandleDepositIgnoresLock(s, in) ==
    [clients |-> [s.clients EXCEPT ![in.client_id].available = @ + in.amount],
     transactions |->
         [OrDefault(s.transactions, in.txn_id, DefaultTransaction)
             EXCEPT ![in.txn_id].amount = in.amount]]

HandleDeposit(s, in) ==
    LET client == s.clients[in.client_id] IN
    IF ~client.locked
    THEN [clients |-> [s.clients EXCEPT ![in.client_id].available = @ + in.amount],
          transactions |->
              [OrDefault(s.transactions, in.txn_id, DefaultTransaction)
                  EXCEPT ![in.txn_id].amount = in.amount]]
    ELSE s

\* variant: the withdrawal branch without the sign test of diff
HandleWithdrawalUnchecked(s, in) ==
    LET client == s.clients[in.client_id]
        diff == client.available - in.amount
    IN
    IF ~client.locked
    THEN [s EXCEPT !.clients[in.client_id].available = diff]
    ELSE s

\* variant: the withdrawal branch calling or_default() on the txn entry
HandleWithdrawalRecords(s, in) ==
    LET client == s.clients[in.client_id]
        diff == client.available - in.amount
        recorded == [s EXCEPT !.transactions =
                        OrDefault(s.transactions, in.txn_id, DefaultTransaction)]
    IN
    IF ~client.locked
    THEN IF IsSignNegative(diff)
         THEN recorded
         ELSE [recorded EXCEPT !.clients[in.client_id].available = diff]
    ELSE s

\* variant: the withdrawal branch judging the amount against available + held
HandleWithdrawalCountsHeld(s, in) ==
    LET client == s.clients[in.client_id]
        diff == client.available - in.amount
    IN
    IF ~client.locked
    THEN IF IsSignNegative(diff + client.held)
         THEN s
         ELSE [s EXCEPT !.clients[in.client_id].available = diff]
    ELSE s

HandleWithdrawal(s, in) ==
    LET client == s.clients[in.client_id]
        diff == client.available - in.amount
    IN
    IF ~client.locked
    THEN IF IsSignNegative(diff)
         THEN s
         ELSE [s EXCEPT !.clients[in.client_id].available = diff]
    ELSE s

\* variant: the dispute branch without the test of transaction.disputed
HandleDisputeRepeats(s, in) ==
    LET client == s.clients[in.client_id] IN
    IF Occupied(s, in)
    THEN LET transaction == s.transactions[in.txn_id] IN
         IF ~client.locked
         THEN [clients |-> [s.clients EXCEPT
                   ![in.client_id].held = @ + transaction.amount,
                   ![in.client_id].available = @ - transaction.amount],
               transactions |-> [s.transactions EXCEPT ![in.txn_id].disputed = TRUE]]
         ELSE s
    ELSE s

\* variant: the dispute branch without the assignment to client.available
HandleDisputeKeepsAvailable(s, in) ==
    LET client == s.clients[in.client_id] IN
    IF Occupied(s, in)
    THEN LET transaction == s.transactions[in.txn_id] IN
         IF ~client.locked /\ ~transaction.disputed
         THEN [clients |-> [s.clients EXCEPT
                   ![in.client_id].held = @ + transaction.amount],
               transactions |-> [s.transactions EXCEPT ![in.txn_id].disputed = TRUE]]
         ELSE s
    ELSE s

\* variant: the dispute branch testing whether any record is disputed, not
\* whether this one is
HandleDisputeAnyRecord(s, in) ==
    LET client == s.clients[in.client_id] IN
    IF Occupied(s, in)
    THEN LET transaction == s.transactions[in.txn_id] IN
         IF ~client.locked
                /\ ~\E u \in DOMAIN s.transactions : s.transactions[u].disputed
         THEN [clients |-> [s.clients EXCEPT
                   ![in.client_id].held = @ + transaction.amount,
                   ![in.client_id].available = @ - transaction.amount],
               transactions |-> [s.transactions EXCEPT ![in.txn_id].disputed = TRUE]]
         ELSE s
    ELSE s

HandleDispute(s, in) ==
    LET client == s.clients[in.client_id] IN
    IF Occupied(s, in)
    THEN LET transaction == s.transactions[in.txn_id] IN
         IF ~client.locked /\ ~transaction.disputed
         THEN [clients |-> [s.clients EXCEPT
                   ![in.client_id].held = @ + transaction.amount,
                   ![in.client_id].available = @ - transaction.amount],
               transactions |-> [s.transactions EXCEPT ![in.txn_id].disputed = TRUE]]
         ELSE s
    ELSE s

\* variant: the resolve branch without the assignment to client.held
HandleResolveKeepsHeld(s, in) ==
    LET client == s.clients[in.client_id] IN
    IF Occupied(s, in)
    THEN LET transaction == s.transactions[in.txn_id] IN
         IF ~client.locked /\ transaction.disputed
         THEN [clients |-> [s.clients EXCEPT
                   ![in.client_id].available = @ + transaction.amount],
               transactions |-> [s.transactions EXCEPT ![in.txn_id].disputed = FALSE]]
         ELSE s
    ELSE s

\* variant: the resolve branch moving the row's amount, not the record's
HandleResolveUsesRowAmount(s, in) ==
    LET client == s.clients[in.client_id] IN
    IF Occupied(s, in)
    THEN LET transaction == s.transactions[in.txn_id] IN
         IF ~client.locked /\ transaction.disputed
         THEN [clients |-> [s.clients EXCEPT
                   ![in.client_id].held = @ - in.amount,
                   ![in.client_id].available = @ + in.amount],
               transactions |-> [s.transactions EXCEPT ![in.txn_id].disputed = FALSE]]
         ELSE s
    ELSE s

\* variant: the resolve branch without the test of client.locked
HandleResolveIgnoresLock(s, in) ==
    IF Occupied(s, in)
    THEN LET transaction == s.transactions[in.txn_id] IN
         IF transaction.disputed
         THEN [clients |-> [s.clients EXCEPT
                   ![in.client_id].held = @ - transaction.amount,
                   ![in.client_id].available = @ + transaction.amount],
               transactions |-> [s.transactions EXCEPT ![in.txn_id].disputed = FALSE]]
         ELSE s
    ELSE s

HandleResolve(s, in) ==
    LET client == s.clients[in.client_id] IN
    IF Occupied(s, in)
    THEN LET transaction == s.transactions[in.txn_id] IN
         IF ~client.locked /\ transaction.disputed
         THEN [clients |-> [s.clients EXCEPT
                   ![in.client_id].held = @ - transaction.amount,
                   ![in.client_id].available = @ + transaction.amount],
               transactions |-> [s.transactions EXCEPT ![in.txn_id].disputed = FALSE]]
         ELSE s
    ELSE s

\* variant: the chargeback branch returning the amount to available
HandleChargebackRefunds(s, in) ==
    LET client == s.clients[in.client_id] IN
    IF Occupied(s, in)
    THEN LET transaction == s.transactions[in.txn_id] IN
         IF ~client.locked /\ transaction.disputed
         THEN [s EXCEPT !.clients[in.client_id].held = @ - transaction.amount,
                        !.clients[in.client_id].available = @ + transaction.amount,
                        !.clients[in.client_id].locked = TRUE]
         ELSE s
    ELSE s

\* variant: the chargeback branch without the assignment to client.locked
HandleChargebackUnlocked(s, in) ==
    LET client == s.clients[in.client_id] IN
    IF Occupied(s, in)
    THEN LET transaction == s.transactions[in.txn_id] IN
         IF ~client.locked /\ transaction.disputed
         THEN [s EXCEPT !.clients[in.client_id].held = @ - transaction.amount]
         ELSE s
    ELSE s

\* variant: the chargeback branch locking every client, not the named one
HandleChargebackLocksAll(s, in) ==
    LET client == s.clients[in.client_id] IN
    IF Occupied(s, in)
    THEN LET transaction == s.transactions[in.txn_id] IN
         IF ~client.locked /\ transaction.disputed
         THEN [s EXCEPT !.clients =
                  [k \in DOMAIN s.clients |->
                      IF k = in.client_id
                      THEN [s.clients[k] EXCEPT !.held = @ - transaction.amount,
                                                !.locked = TRUE]
                      ELSE [s.clients[k] EXCEPT !.locked = TRUE]]]
         ELSE s
    ELSE s

HandleChargeback(s, in) ==
    LET client == s.clients[in.client_id] IN
    IF Occupied(s, in)
    THEN LET transaction == s.transactions[in.txn_id] IN
         IF ~client.locked /\ transaction.disputed
         THEN [s EXCEPT !.clients[in.client_id].held = @ - transaction.amount,
                        !.clients[in.client_id].locked = TRUE]
         ELSE s
    ELSE s

\* variant: a dispute, resolve or chargeback row whose txn id has no record
\* returns before the client is created
HandleTransactionLateClient(s, in) ==
    LET s1 == WithClient(s, in) IN
    CASE in.kind = "deposit" -> HandleDeposit(s1, in)
      [] in.kind = "withdrawal" -> HandleWithdrawal(s1, in)
      [] in.kind = "dispute" -> IF Occupied(s, in) THEN HandleDispute(s1, in) ELSE s
      [] in.kind = "resolve" -> IF Occupied(s, in) THEN HandleResolve(s1, in) ELSE s
      [] in.kind = "chargeback" -> IF Occupied(s, in) THEN HandleChargeback(s1, in) ELSE s

\* fn handle_transaction: the state after the call
HandleTransaction(s, in) ==
    LET s1 == WithClient(s, in) IN
    CASE in.kind = "deposit" -> HandleDeposit(s1, in)
      [] in.kind = "withdrawal" -> HandleWithdrawal(s1, in)
      [] in.kind = "dispute" -> HandleDispute(s1, in)
      [] in.kind = "resolve" -> HandleResolve(s1, in)
      [] in.kind = "chargeback" -> HandleChargeback(s1, in)

\* fn handle_transaction: the value it returns (every path is Ok(()))
HandleResult(s, in) == "Ok"

\* the locked flag the row's client has when the row arrives
LockedBefore(s, in) == WithClient(s, in).clients[in.client_id].locked

\* the withdrawal passes the sign test of line 122
Sufficient(s, in) ==
    ~IsSignNegative(WithClient(s, in).clients[in.client_id].available - in.amount)

\* the row passes every guard of its branch, so the branch's assignments run
Applied(s, in) ==
    CASE in.kind = "deposit" -> ~LockedBefore(s, in)
      [] in.kind = "withdrawal" -> ~LockedBefore(s, in) /\ Sufficient(s, in)
      [] in.kind = "dispute" ->
            Occupied(s, in) /\ ~LockedBefore(s, in)
                /\ ~s.transactions[in.txn_id].disputed
      [] in.kind \in {"resolve", "chargeback"} ->
            Occupied(s, in) /\ ~LockedBefore(s, in)
                /\ s.transactions[in.txn_id].disputed

\* fn process_input: the rows of the stream handled one after the other
RECURSIVE RunAll(_, _)
RunAll(s, rows) ==
    IF rows = <<>> THEN s
    ELSE RunAll(HandleTransaction(s, Head(rows)), Tail(rows))

Row(k, c, t, amt) == [kind |-> k, client_id |-> c, txn_id |-> t, amount |-> amt]

\* no row handled yet
NoRow == Row("none", 0, 0, 0)

Init ==
    /\ state = DefaultState
    /\ input = NoRow
    /\ result = "none"
    /\ applied = FALSE
    /\ owner = <<>>
    /\ net = [c \in ClientId |-> 0]
    /\ added = <<>>
    /\ charged = {}
    /\ nEvents = 0

\* one iteration of the loop of process_input on the row in
Handle(in) ==
    /\ nEvents' = nEvents + 1
    /\ input' = in
    /\ state' = HandleTransaction(state, in)
    /\ result' = HandleResult(state, in)
    /\ applied' = Applied(state, in)
    /\ owner' = IF in.kind = "deposit" /\ Applied(state, in)
                THEN OrDefault(owner, in.txn_id, in.client_id)
                ELSE owner
    /\ net' = CASE in.kind = "deposit" /\ Applied(state, in) ->
                     [net EXCEPT ![in.client_id] = @ + in.amount]
                [] in.kind = "withdrawal" /\ Applied(state, in) ->
                     [net EXCEPT ![in.client_id] = @ - in.amount]
                [] OTHER -> net
    /\ added' = IF in.kind = "dispute" /\ Applied(state, in)
                THEN (in.txn_id :> state.transactions[in.txn_id].amount) @@ added
                ELSE added
    /\ charged' = IF in.kind = "chargeback" /\ Applied(state, in)
                  THEN charged \cup {in.txn_id}
                  ELSE charged

Deposit == \E c \in ClientId, t \in TransactionId, amt \in Amounts :
    /\ nEvents < MaxEvents
    /\ Handle(Row("deposit", c, t, amt))
Withdrawal == \E c \in ClientId, t \in TransactionId, amt \in Amounts :
    /\ nEvents < MaxEvents
    /\ Handle(Row("withdrawal", c, t, amt))
Dispute == \E c \in ClientId, t \in TransactionId, amt \in DisputeAmounts :
    /\ nEvents < MaxEvents
    /\ Handle(Row("dispute", c, t, amt))
Resolve == \E c \in ClientId, t \in TransactionId, amt \in DisputeAmounts :
    /\ nEvents < MaxEvents
    /\ Handle(Row("resolve", c, t, amt))
Chargeback == \E c \in ClientId, t \in TransactionId, amt \in DisputeAmounts :
    /\ nEvents < MaxEvents
    /\ Handle(Row("chargeback", c, t, amt))

Next == Deposit \/ Withdrawal \/ Dispute \/ Resolve \/ Chargeback

Spec == Init /\ [][Next]_vars

\* streams of deposits and withdrawals only
NextDW == Deposit \/ Withdrawal

SpecDW == Init /\ [][NextDW]_vars

\* ---- streams under the restrictions some properties assume ----
NonNegAmounts == 0..MaxAmount

DepositNonNeg == \E c \in ClientId, t \in TransactionId, amt \in NonNegAmounts :
    /\ nEvents < MaxEvents
    /\ Handle(Row("deposit", c, t, amt))
WithdrawalNonNeg == \E c \in ClientId, t \in TransactionId, amt \in NonNegAmounts :
    /\ nEvents < MaxEvents
    /\ Handle(Row("withdrawal", c, t, amt))

\* streams whose deposit and withdrawal amounts are all non-negative
NextNonNeg == DepositNonNeg \/ WithdrawalNonNeg \/ Dispute \/ Resolve \/ Chargeback

SpecNonNeg == Init /\ [][NextNonNeg]_vars

\* a deposit whose txn id no applied deposit has used
DepositFresh == \E c \in ClientId, t \in TransactionId, amt \in NonNegAmounts :
    /\ nEvents < MaxEvents
    /\ t \notin DOMAIN state.transactions
    /\ Handle(Row("deposit", c, t, amt))
\* dispute-family rows that name the owner of the record, if there is one
DisputeByOwner == \E c \in ClientId, t \in TransactionId, amt \in DisputeAmounts :
    /\ nEvents < MaxEvents
    /\ t \in DOMAIN owner => owner[t] = c
    /\ Handle(Row("dispute", c, t, amt))
ResolveByOwner == \E c \in ClientId, t \in TransactionId, amt \in DisputeAmounts :
    /\ nEvents < MaxEvents
    /\ t \in DOMAIN owner => owner[t] = c
    /\ Handle(Row("resolve", c, t, amt))
ChargebackByOwner == \E c \in ClientId, t \in TransactionId, amt \in DisputeAmounts :
    /\ nEvents < MaxEvents
    /\ t \in DOMAIN owner => owner[t] = c
    /\ Handle(Row("chargeback", c, t, amt))

\* correct input: non-negative amounts, fresh deposit ids, owners named
NextCorrect ==
    DepositFresh \/ WithdrawalNonNeg \/ DisputeByOwner \/ ResolveByOwner
        \/ ChargebackByOwner

SpecCorrect == Init /\ [][NextCorrect]_vars

\* ---- the State alone, for the properties of handle_transaction as a function ----
\* the rows the actions above draw
Rows ==
    [kind : {"deposit", "withdrawal"}, client_id : ClientId,
     txn_id : TransactionId, amount : Amounts]
        \cup [kind : {"dispute", "resolve", "chargeback"}, client_id : ClientId,
              txn_id : TransactionId, amount : DisputeAmounts]

\* one iteration of the loop of process_input, the history not recorded
HandleOnly == \E in \in Rows :
    /\ nEvents < MaxEvents
    /\ state' = HandleTransaction(state, in)
    /\ nEvents' = nEvents + 1
    /\ UNCHANGED <<input, result, applied, owner, net, added, charged>>

SpecState == Init /\ [][HandleOnly]_vars

TypeOK ==
    /\ DOMAIN state.clients \subseteq ClientId
    /\ DOMAIN state.transactions \subseteq TransactionId
    /\ \A c \in DOMAIN state.clients :
          /\ state.clients[c].available \in Int
          /\ state.clients[c].held \in Int
          /\ state.clients[c].locked \in BOOLEAN
    /\ \A t \in DOMAIN state.transactions :
          /\ state.transactions[t].amount \in Amounts
          /\ state.transactions[t].disputed \in BOOLEAN
    /\ nEvents \in 0..MaxEvents
\* ---- helpers of the properties ----
\* the row of this step and the state it arrives in (client created, line 105)
Stepped == nEvents' # nEvents
Arrival == WithClient(state, input')
ClientBefore == Arrival.clients[input'.client_id]

\* C1: lock is terminal: once a client is locked, no later row of any kind
\* that names it changes its available, held or locked.
\* In particular locked never returns to false, whichever client a row names.
LockIsTerminal ==
    [][\A c \in DOMAIN state.clients :
          (Stepped /\ state.clients[c].locked)
              => /\ c \in DOMAIN state'.clients
                 /\ state'.clients[c].locked
                 /\ input'.client_id = c => state'.clients[c] = state.clients[c]]_vars

\* a deposit of a positive amount was handled for a client that was locked
\* already (only a chargeback locks, and the last row is not one)
WitLockedDepositDropped ==
    /\ input.kind = "deposit" /\ input.amount > 0
    /\ state.clients[input.client_id].locked
    /\ ~applied

\* C2: a withdrawal on an unlocked client is rejected, leaving everything
\* unchanged, when available - amount < 0, and otherwise (amount equal to
\* available included) lowers available by exactly amount; held is not counted.
WithdrawalJudgedOnAvailable ==
    [][(Stepped /\ input'.kind = "withdrawal" /\ ~ClientBefore.locked)
          => IF ClientBefore.available - input'.amount < 0
             THEN state' = Arrival
             ELSE state' = [Arrival EXCEPT
                      !.clients[input'.client_id].available = @ - input'.amount]]_vars

\* deposit, dispute, then a withdrawal that held would cover but available
\* (0) does not: the withdrawal was rejected
WitWithdrawalRejectedWhileHeld ==
    /\ nEvents = 3 /\ input.kind = "withdrawal" /\ ~applied
    /\ LET client == state.clients[input.client_id] IN
          /\ ~client.locked /\ client.available = 0 /\ client.held > 0
          /\ input.amount > 0 /\ input.amount <= client.held

\* C3 (as claimed): a deposit applied to an unlocked client whose txn id has a
\* record already leaves that record unchanged (amount and disputed), while
\* available still grows by the row's amount.
DuplicateDepositLeavesRecord ==
    [][(Stepped /\ input'.kind = "deposit" /\ ~ClientBefore.locked
            /\ Occupied(state, input'))
          => /\ state'.transactions[input'.txn_id] = state.transactions[input'.txn_id]
             /\ state'.clients[input'.client_id].available
                    = ClientBefore.available + input'.amount]_vars
\* C4: dispute then resolve is a net no-op: when a dispute of t naming c is
\* applied (it changes something) and a resolve of t naming c follows at once,
\* c's available and held are back at their values, t is not disputed, and
\* every other client and record is unchanged.
DisputeThenResolveIsNoOp ==
    \A c \in ClientId, t \in TransactionId, a1 \in DisputeAmounts, a2 \in DisputeAmounts :
        LET dispute == Row("dispute", c, t, a1)
            resolve == Row("resolve", c, t, a2)
            s0 == WithClient(state, dispute)
            s1 == HandleTransaction(state, dispute)
            s2 == HandleTransaction(s1, resolve)
        IN s1 # s0 => s2 = s0

\* deposit of 1 to c, dispute by c, resolve by c: the resolve was applied and
\* c is back at available 1, held 0 (a dispute naming the other client would
\* leave c's held at -1)
WitDisputeResolved ==
    /\ nEvents = 3 /\ input.kind = "resolve" /\ applied
    /\ LET client == state.clients[input.client_id] IN
          /\ client.held = 0 /\ client.available = 1
          /\ net[input.client_id] = 1
    /\ state.transactions[input.txn_id] = [amount |-> 1, disputed |-> FALSE]

\* C5: in a stream of deposits and withdrawals only, after each row every
\* client has held = 0 and available + held = applied deposits - applied
\* withdrawals (rejected withdrawals not counted).
BalanceIsCreditsMinusDebits ==
    \A c \in DOMAIN state.clients :
        /\ state.clients[c].held = 0
        /\ state.clients[c].available + state.clients[c].held = net[c]

\* a withdrawal of 1 was rejected for lack of funds after rows that were applied
WitWithdrawalNotCounted ==
    /\ nEvents = 3 /\ input.kind = "withdrawal" /\ input.amount = 1 /\ ~applied
    /\ state.clients[input.client_id].available = 0
    /\ input.txn_id \in DOMAIN owner /\ owner[input.txn_id] = input.client_id
    /\ state.transactions[input.txn_id].amount = 1

\* the second scenario of the spec: deposit 10, dispute, chargeback, deposit 50
ChargebackScenario ==
    RunAll(DefaultState, << Row("deposit", 1, 1, 10), Row("dispute", 1, 1, 0),
                            Row("chargeback", 1, 1, 0), Row("deposit", 1, 2, 50) >>)

\* C6: a chargeback naming an unlocked client and a record that is disputed
\* lowers the client's held by the record's amount, leaves available alone,
\* locks the client and leaves the record disputed; deposit 10, dispute,
\* chargeback, deposit 50 ends with available 0, held 0, locked.
ChargebackEffect ==
    /\ ChargebackScenario.clients[1] = [available |-> 0, held |-> 0, locked |-> TRUE]
    /\ [][(Stepped /\ input'.kind = "chargeback" /\ ~ClientBefore.locked
              /\ Occupied(state, input') /\ state.transactions[input'.txn_id].disputed)
            => /\ state'.clients[input'.client_id] =
                     [available |-> ClientBefore.available,
                      held |-> ClientBefore.held - state.transactions[input'.txn_id].amount,
                      locked |-> TRUE]
               /\ state'.transactions = state.transactions
               /\ state.transactions[input'.txn_id].disputed]_vars

\* deposit of 1, dispute, chargeback on one client: locked, nothing held,
\* nothing returned, the record still disputed
WitChargedBack ==
    /\ input.kind = "chargeback" /\ applied
    /\ state.clients[input.client_id] = [available |-> 0, held |-> 0, locked |-> TRUE]
    /\ net[input.client_id] = 1
    /\ state.transactions[input.txn_id] = [amount |-> 1, disputed |-> TRUE]

\* the rejections the policy table lists
PolicyRejects ==
    \/ ClientBefore.locked
    \/ /\ input'.kind = "dispute"
       /\ ~Occupied(state, input') \/ state.transactions[input'.txn_id].disputed
    \/ /\ input'.kind \in {"resolve", "chargeback"}
       /\ ~Occupied(state, input') \/ ~state.transactions[input'.txn_id].disputed

\* C7: every policy rejection is a silent no-op: the call returns Ok, every
\* client that existed keeps its available, held and locked, every record
\* keeps its amount and disputed flag, and no record is created.
RejectionsAreSilent ==
    [][(Stepped /\ PolicyRejects)
          => /\ result' = "Ok"
             /\ \A c \in DOMAIN state.clients :
                   c \in DOMAIN state'.clients /\ state'.clients[c] = state.clients[c]
             /\ state'.transactions = state.transactions]_vars

\* deposit of 1, dispute, and the same dispute again: the second is dropped,
\* held is 1 and not 2
WitSecondDisputeDropped ==
    /\ nEvents = 3 /\ input.kind = "dispute" /\ ~applied /\ result = "Ok"
    /\ input.txn_id \in DOMAIN state.transactions
    /\ state.transactions[input.txn_id] = [amount |-> 1, disputed |-> TRUE]
    /\ state.clients[input.client_id] = [available |-> 0, held |-> 1, locked |-> FALSE]

\* the sum of the amounts of the records in T
RECURSIVE SumAmounts(_)
SumAmounts(T) ==
    IF T = {} THEN 0
    ELSE LET t == CHOOSE x \in T : TRUE
         IN state.transactions[t].amount + SumAmounts(T \ {t})

\* the records that are marked disputed and were created by a deposit to c
DisputedOf(c) ==
    {t \in DOMAIN state.transactions : state.transactions[t].disputed /\ owner[t] = c}

\* C8 (as claimed): each client's held is the sum of the amounts of the
\* records marked disputed whose original deposit was applied to that client.
HeldIsSumOfDisputed ==
    \A c \in DOMAIN state.clients : state.clients[c].held = SumAmounts(DisputedOf(c))

\* C9: a record exists for a txn id iff an earlier deposit with that id was
\* applied to a then-unlocked client; no other row creates a record, and a
\* dispute of an id without a record changes nothing.
OnlyAppliedDepositsCreateRecords ==
    /\ [](DOMAIN state.transactions = DOMAIN owner)
    /\ [][(Stepped /\ ~(input'.kind = "deposit" /\ ~ClientBefore.locked))
            => /\ DOMAIN state'.transactions = DOMAIN state.transactions
               /\ (input'.kind = "dispute" /\ ~Occupied(state, input'))
                      => state' = Arrival]_vars

\* a withdrawal was applied (no other row changes net without creating a
\* record; its amount was -1), then a dispute was handled: whatever id the
\* withdrawal carried has no record, and the dispute changed nothing
WitDisputeWithoutRecord ==
    /\ nEvents = 2 /\ input.kind = "dispute" /\ ~applied
    /\ DOMAIN state.transactions = {}
    /\ net[input.client_id] = 1
    /\ state.clients[input.client_id] = [available |-> 1, held |-> 0, locked |-> FALSE]

\* available + held of client c in the State s (0 while c does not exist)
Total(s, c) ==
    IF c \in DOMAIN s.clients THEN s.clients[c].available + s.clients[c].held ELSE 0

\* C10: an applied dispute moves the record's amount from available to held
\* and sets disputed, an applied resolve moves it back and clears disputed;
\* so no dispute or resolve row changes any client's available + held, which
\* changes only on applied deposits, withdrawals and chargebacks.
DisputeAndResolveKeepTotal ==
    [][Stepped =>
          LET c == input'.client_id
              t == input'.txn_id
              live == Occupied(state, input') /\ ~ClientBefore.locked
          IN
          /\ (input'.kind = "dispute" /\ live /\ ~state.transactions[t].disputed)
                => /\ state'.clients[c].held
                         = ClientBefore.held + state.transactions[t].amount
                   /\ state'.clients[c].available
                         = ClientBefore.available - state.transactions[t].amount
                   /\ state'.transactions[t].disputed
          /\ (input'.kind = "resolve" /\ live /\ state.transactions[t].disputed)
                => /\ state'.clients[c].held
                         = ClientBefore.held - state.transactions[t].amount
                   /\ state'.clients[c].available
                         = ClientBefore.available + state.transactions[t].amount
                   /\ ~state'.transactions[t].disputed
          /\ \A k \in ClientId :
                Total(state', k) # Total(state, k)
                    => input'.kind \in {"deposit", "withdrawal", "chargeback"} /\ applied'
      ]_vars

\* deposit of 1, withdrawal of 1, then the dispute of the deposit: 1 moved
\* from available (now -1) to held, the total still 0
WitDisputeMovedFunds ==
    /\ nEvents = 3 /\ input.kind = "dispute" /\ applied
    /\ state.clients[input.client_id] = [available |-> 0 - 1, held |-> 1, locked |-> FALSE]
    /\ net[input.client_id] = 0
    /\ state.transactions[input.txn_id] = [amount |-> 1, disputed |-> TRUE]
DisputeFamily == {"dispute", "resolve", "chargeback"}

\* C11: a repeated dispute-family row is safe: from every reachable state,
\* handling the same dispute (resolve, chargeback) row twice in a row gives
\* the state that handling it once gives.
DisputeFamilyIdempotent ==
    \A k \in DisputeFamily, c \in ClientId, t \in TransactionId, amt \in DisputeAmounts :
        LET row == Row(k, c, t, amt)
            once == HandleTransaction(state, row)
        IN HandleTransaction(once, row) = once

\* deposit of 1, dispute, chargeback, and a chargeback of the same record
\* naming the same (now locked) client again: the second one was dropped and
\* held is 0, not -1
WitChargebackRepeated ==
    /\ nEvents = 4 /\ input.kind = "chargeback" /\ ~applied
    /\ input.txn_id \in DOMAIN state.transactions
    /\ state.transactions[input.txn_id] = [amount |-> 1, disputed |-> TRUE]
    /\ owner[input.txn_id] = input.client_id
    /\ state.clients[input.client_id] = [available |-> 0, held |-> 0, locked |-> TRUE]
    /\ DOMAIN state.clients = {input.client_id}

\* C12: the amount field of a dispute, resolve or chargeback row is ignored:
\* from the same state, two rows that differ only in the amount field lead to
\* the same state (each of them leads to the state that the row without an
\* amount field, which deserializes to amount 0, leads to).
DisputeFamilyAmountIgnored ==
    \A k \in DisputeFamily, c \in ClientId, t \in TransactionId :
        LET plain == HandleTransaction(state, Row(k, c, t, 0)) IN
        \A amt \in Amounts : HandleTransaction(state, Row(k, c, t, amt)) = plain

\* a deposit of 0, then a dispute of it whose row carries the amount 1: the
\* dispute was applied and moved the record's 0, not the row's 1
WitDisputeAmountFieldIgnored ==
    /\ nEvents = 2 /\ input.kind = "dispute" /\ applied /\ input.amount = 1
    /\ state.transactions[input.txn_id] = [amount |-> 0, disputed |-> TRUE]
    /\ state.clients[input.client_id] = [available |-> 0, held |-> 0, locked |-> FALSE]
\* available, held and locked of client k in the State s (the default ones
\* while k does not exist)
Balances(s, k) == IF k \in DOMAIN s.clients THEN s.clients[k] ELSE DefaultClient

\* C13 (as claimed): a dispute, resolve or chargeback row changes available,
\* held and locked only of the client that owns the referenced record (the
\* client its original deposit was applied to), not of a different client
\* that the row names.
DisputeFamilyTouchesOwnerOnly ==
    [][(Stepped /\ input'.kind \in DisputeFamily /\ Occupied(state, input'))
          => \A k \in ClientId \ {owner[input'.txn_id]} :
                Balances(state', k) = Balances(state, k)]_vars

\* C14 (as claimed): the amount an applied resolve or chargeback of t takes
\* off held equals the amount the applied dispute of t that it ends added to
\* held, also when a deposit reusing t's id arrives while t is disputed.
ReleaseEqualsAdded ==
    [][(Stepped /\ input'.kind \in {"resolve", "chargeback"} /\ applied')
          => ClientBefore.held - state'.clients[input'.client_id].held
                 = added[input'.txn_id]]_vars

\* C15 (as claimed): at most one chargeback referencing a record is ever
\* applied; once one has been applied, every later chargeback or resolve
\* referencing that record is a no-op.
ChargebackAtMostOnce ==
    [][(Stepped /\ input'.kind \in {"resolve", "chargeback"}
            /\ input'.txn_id \in charged)
          => ~applied' /\ state' = Arrival]_vars
\* C16: accounts are created lazily: after a row of any kind, applied or
\* rejected, a client exists for the row's client id; a client created by a
\* rejected row has available 0, held 0 and is unlocked (one created by a
\* deposit has just the deposit's amount); no client is removed and no other
\* client appears, so the clients at the end of the stream, which starts
\* without clients, are exactly the client ids of its rows.
LazyAccountCreation ==
    /\ state.clients = <<>>
    /\ [][Stepped =>
            LET c == input'.client_id
                new == c \notin DOMAIN state.clients
            IN
            /\ c \in DOMAIN state'.clients
            /\ DOMAIN state'.clients = DOMAIN state.clients \cup {c}
            /\ (new /\ ~applied') => state'.clients[c] = DefaultClient
            /\ (new /\ input'.kind = "deposit")
                  => state'.clients[c] =
                         [available |-> input'.amount, held |-> 0, locked |-> FALSE]
       ]_vars

\* the first row is a dispute of an id without a record: it is rejected, and
\* its client now exists with zero balances, unlocked
WitAccountCreatedByRejectedRow ==
    /\ nEvents = 1 /\ input.kind = "dispute" /\ ~applied
    /\ state.transactions = <<>>
    /\ DOMAIN state.clients = {input.client_id}
    /\ state.clients[input.client_id] = DefaultClient
\* C17: under correct input (non-negative deposit and withdrawal amounts,
\* every deposit with a fresh txn id, every dispute, resolve and chargeback
\* naming the owner of the record) every client's held is >= 0 in every
\* reachable state.
HeldNonNegative ==
    \A c \in DOMAIN state.clients : state.clients[c].held >= 0

\* deposit of 1, dispute, chargeback, then a resolve of the same record by
\* its owner: the resolve is dropped (the owner is locked) and held stays 0
WitResolveAfterChargebackDropped ==
    /\ nEvents = 4 /\ input.kind = "resolve" /\ ~applied
    /\ input.txn_id \in charged
    /\ owner[input.txn_id] = input.client_id
    /\ state.transactions[input.txn_id] = [amount |-> 1, disputed |-> TRUE]
    /\ state.clients[input.client_id] = [available |-> 0, held |-> 0, locked |-> TRUE]

\* C18: with non-negative amounts only an applied dispute makes available
\* negative: no deposit, withdrawal, resolve or chargeback row takes a client
\* from available >= 0 to available < 0 (and deposit, withdrawal, dispute
\* reaches available < 0: the witness).
OnlyDisputeMakesAvailableNegative ==
    [][(Stepped /\ input'.kind # "dispute")
          => \A k \in ClientId :
                Balances(state, k).available >= 0
                    => Balances(state', k).available >= 0]_vars

\* deposit of 1 to c, withdrawal of 1 by c (with non-negative amounts nothing
\* else takes net[c] back to 0), dispute of the deposit by c: available is -1
WitAvailableNegativeByDispute ==
    /\ nEvents = 3 /\ input.kind = "dispute" /\ applied
    /\ owner[input.txn_id] = input.client_id
    /\ state.transactions[input.txn_id].amount = 1
    /\ net[input.client_id] = 0
    /\ state.clients[input.client_id].available < 0
\* C19: frame of one row: one call of handle_transaction changes available,
\* held and locked of at most the client the row names and changes (or
\* creates) at most the record with the row's txn id; every other client and
\* record is unchanged, and none appears or disappears.
OneClientOneRecord ==
    [][Stepped =>
          /\ \A k \in ClientId \ {input'.client_id} :
                /\ k \in DOMAIN state'.clients <=> k \in DOMAIN state.clients
                /\ Balances(state', k) = Balances(state, k)
          /\ \A u \in TransactionId \ {input'.txn_id} :
                /\ u \in DOMAIN state'.transactions <=> u \in DOMAIN state.transactions
                /\ u \in DOMAIN state.transactions
                      => state'.transactions[u] = state.transactions[u]
      ]_vars

\* two clients with a deposit of 1 each under different ids, then the
\* dispute of one of the deposits applied: the named client and record
\* changed, the other client and the other record are as the deposit left them
WitOtherClientUntouched ==
    /\ nEvents = 3 /\ input.kind = "dispute" /\ applied
    /\ DOMAIN state.clients = ClientId /\ DOMAIN state.transactions = TransactionId
    /\ owner[input.txn_id] = input.client_id
    /\ state.clients[input.client_id] = [available |-> 0, held |-> 1, locked |-> FALSE]
    /\ \A k \in ClientId \ {input.client_id} :
          state.clients[k] = [available |-> 1, held |-> 0, locked |-> FALSE]
    /\ \A u \in TransactionId \ {input.txn_id} :
          state.transactions[u] = [amount |-> 1, disputed |-> FALSE]
\* a deposit and the dispute of it, in the two orders
DepositThenDispute ==
    RunAll(DefaultState, << Row("deposit", 1, 1, 1), Row("dispute", 1, 1, 0) >>)
DisputeThenDeposit ==
    RunAll(DefaultState, << Row("dispute", 1, 1, 0), Row("deposit", 1, 1, 1) >>)

\* C20: from every reachable state two rows that name different clients and
\* different txn ids commute: both orders give the same State; whereas a
\* deposit and the dispute of it, which share client and txn id, do not.
UnrelatedRowsCommute ==
    /\ \A e1 \in Rows, e2 \in Rows :
          (e1.client_id < e2.client_id /\ e1.txn_id # e2.txn_id)
              => HandleTransaction(HandleTransaction(state, e1), e2)
                     = HandleTransaction(HandleTransaction(state, e2), e1)
    /\ DepositThenDispute # DisputeThenDeposit

\* either client has available 0 and held 1 and both records of amount 1 are
\* disputed: two deposits and two disputes, naming different clients and
\* ids, were handled, in one of their interleavings
WitTwoClientsTwoRecords ==
    /\ nEvents = 4
    /\ DOMAIN state.clients = ClientId /\ DOMAIN state.transactions = TransactionId
    /\ \A t \in TransactionId : state.transactions[t] = [amount |-> 1, disputed |-> TRUE]
    /\ \A c \in ClientId :
          state.clients[c] = [available |-> 0, held |-> 1, locked |-> FALSE]
====
